---- MODULE Spec2Model ----
(***************************************************************************)
(* The VeSync humidifier entity (VeSyncHumidifierHA) and the water-tank    *)
(* binary sensor (VeSyncSensorEntity) of one discovered device, as a state *)
(* machine.  One action per entity operation: set_mode, set_humidity,      *)
(* update (the humidifier's poll) and sensor_update (the sensor's poll).   *)
(* The device handle belongs to the external SDK: a command sent to it     *)
(* either takes effect on the handle's attributes or does not, and a poll  *)
(* replaces the handle's attributes by whatever the device reports.        *)
(***************************************************************************)
EXTENDS Integers, Sequences, FiniteSets, TLC

VARIABLES
    base_device,          \* SKU_TO_BASE_DEVICE.get(dev.device_type)
    smarthumidifier,      \* the device handle's attributes
    last_known_mode,      \* VeSyncHumidifierHA.last_known_mode
    last_known_fan_speed, \* VeSyncHumidifierHA.last_known_fan_speed
    display_info,         \* the snapshot parsed by the latest get_latest_info
    last_call,            \* the latest operation and its argument
    cmds,                 \* the commands that operation sent to the handle, in order
    refreshes,            \* the schedule_update_ha_state() calls of that operation
    raised                \* the exception that operation ended with, or None

vars == <<base_device, smarthumidifier, last_known_mode, last_known_fan_speed,
          display_info, last_call, cmds, refreshes, raised>>

----------------------------------------------------------------------------
(* Constants of humidifier.py and binary_sensor.py *)

None == "<None>"

FAN_MODE_AUTO == "auto"
FAN_MODE_SLEEP == "sleep"
FAN_MODE_MANUAL == "manual"

MAX_HUMIDITY == 100
MIN_HUMIDITY == 0
MAX_FAN_SPEED == 9
MIN_FAN_SPEED == 0

DEV_TYPE_TO_HA ==
    [b \in {"Classic300S", "Classic200S"} |-> "humidifier"]

PRESET_MODES ==
    [b \in {"Classic300S"} |-> <<FAN_MODE_AUTO, FAN_MODE_MANUAL, FAN_MODE_SLEEP>>]

TANK_LIFTED_SUPPORTED == {"Classic300S"}

Range(s) == {s[i] : i \in DOMAIN s}

----------------------------------------------------------------------------
(* The inputs the operations are exercised with *)

\* base device types of discovered devices; "Core200S" is no humidifier
BaseDevices == {"Classic300S", "Classic200S", "Core200S"}

\* mode strings a caller may request
RequestedModes == {FAN_MODE_AUTO, FAN_MODE_MANUAL, FAN_MODE_SLEEP, "bogus"}

\* mode strings a device may report in its snapshot
DeviceModes == {FAN_MODE_AUTO, FAN_MODE_MANUAL, FAN_MODE_SLEEP, "humidity"}

\* humidity values a caller may pass to set_humidity
HumidityInputs == {5, 9, 50}

\* mist levels and humidity setpoints a device may report; the snapshot holds
\* them as JSON integers, which int() returns as they are
MistReportCount == 2
MistReports == {3 * k : k \in 1..MistReportCount}
AutoHumidityReports == {45}

Call(name, strs, ints) == [call |-> name, str |-> strs, int |-> ints]

----------------------------------------------------------------------------
(* The device handle *)

DeviceStates ==
    [is_on : BOOLEAN, auto_enabled : BOOLEAN,
     auto_humidity : AutoHumidityReports, tank_lifted : BOOLEAN]

\* a dict json.loads(displayJSON()) may return: each key is present or absent
Snapshot(hasMode, m, hasMist, level) ==
    [k \in (IF hasMode THEN {"Mode"} ELSE {}) \cup
            (IF hasMist THEN {"Mist Virtual Level"} ELSE {})
        |-> IF k = "Mode" THEN m ELSE level]

Snapshots ==
    {Snapshot(hasMode, m, hasMist, level) :
        hasMode \in BOOLEAN, m \in DeviceModes,
        hasMist \in BOOLEAN, level \in MistReports}

\* the handle's auto-enabled flag agrees with the mode its snapshot shows
Coherent(dev, info) ==
    "Mode" \in DOMAIN info =>
        /\ (info["Mode"] = FAN_MODE_AUTO => dev.auto_enabled)
        /\ (info["Mode"] \in {FAN_MODE_MANUAL, FAN_MODE_SLEEP} => ~dev.auto_enabled)

\* the handle after `cmd` took effect
DeviceEffect(dev, cmd) ==
    CASE cmd.call = "turn_on" -> [dev EXCEPT !.is_on = TRUE]
      [] cmd.call = "set_auto_mode" -> [dev EXCEPT !.auto_enabled = TRUE]
      [] cmd.call = "set_manual_mode" -> [dev EXCEPT !.auto_enabled = FALSE]
      [] cmd.call = "set_humidity_mode" -> [dev EXCEPT !.auto_enabled = FALSE]
      [] cmd.call = "set_humidity" -> [dev EXCEPT !.auto_humidity = cmd.int[1]]
      [] OTHER -> dev

\* the handle after the commands `issued`, of which those acknowledged took effect
RECURSIVE Deliver(_, _, _)
Deliver(dev, issued, acks) ==
    IF issued = <<>> THEN dev
    ELSE Deliver(IF Head(acks) THEN DeviceEffect(dev, Head(issued)) ELSE dev,
                 Tail(issued), Tail(acks))

Acks(issued) == [1..Len(issued) -> BOOLEAN]

----------------------------------------------------------------------------
(* Entity creation *)

HumidifierCreated ==
    base_device \in DOMAIN DEV_TYPE_TO_HA /\ DEV_TYPE_TO_HA[base_device] = "humidifier"

SensorCreated == base_device \in TANK_LIFTED_SUPPORTED

Init ==
    /\ base_device \in BaseDevices
    /\ smarthumidifier \in DeviceStates
    /\ last_known_mode = ""
    /\ last_known_fan_speed = 1
    /\ display_info = [k \in {} |-> 0]
    /\ last_call = Call("created", <<>>, <<>>)
    /\ cmds = <<>>
    /\ refreshes = 0
    /\ raised = None

----------------------------------------------------------------------------
(* Properties of the humidifier entity *)

target_humidity ==
    IF last_known_mode = FAN_MODE_MANUAL
        THEN last_known_fan_speed
        ELSE smarthumidifier.auto_humidity

max_humidity ==
    IF last_known_mode = FAN_MODE_MANUAL THEN MAX_FAN_SPEED ELSE MAX_HUMIDITY

min_humidity ==
    IF last_known_mode = FAN_MODE_MANUAL THEN MIN_FAN_SPEED ELSE MIN_HUMIDITY

mode ==
    IF smarthumidifier.auto_enabled THEN FAN_MODE_AUTO ELSE last_known_mode

\* the binary sensor's is_on
is_on == TRUE

----------------------------------------------------------------------------
(* Operations of the humidifier entity *)

\* lines 161-162: power the device on when it is off
PowerOn(dev) ==
    IF ~dev.is_on THEN <<Call("turn_on", <<>>, <<>>)>> ELSE <<>>

\* ModeCommands with the second chain ending in a bare else: every mode that is
\* not manual also gets the sleep command
ModeCommands_ElseSleep(requested) ==
    (IF requested = FAN_MODE_AUTO
        THEN <<Call("set_auto_mode", <<>>, <<>>)>> ELSE <<>>)
    \o (IF requested = FAN_MODE_MANUAL
            THEN <<Call("set_manual_mode", <<>>, <<>>)>>
        ELSE <<Call("set_humidity_mode", <<"sleep">>, <<>>)>>)

\* lines 164-169: the mode command(s) of set_mode
ModeCommands(requested) ==
    (IF requested = FAN_MODE_AUTO
        THEN <<Call("set_auto_mode", <<>>, <<>>)>> ELSE <<>>)
    \o (IF requested = FAN_MODE_MANUAL
            THEN <<Call("set_manual_mode", <<>>, <<>>)>>
        ELSE IF requested = FAN_MODE_SLEEP
            THEN <<Call("set_humidity_mode", <<"sleep">>, <<>>)>>
        ELSE <<>>)

\* lines 156-159: the exception set_mode's validation ends with, or None.
\* preset_modes (line 139) looks the base device up in PRESET_MODES.
SetModeValidation(requested) ==
    IF base_device \notin DOMAIN PRESET_MODES THEN "KeyError"
    ELSE IF requested \notin Range(PRESET_MODES[base_device]) THEN "ValueError"
    ELSE None

\* set_mode with the power-on placed before the validation, as set_humidity has it
set_mode_PowerOnFirst(requested) ==
    /\ HumidifierCreated
    /\ last_call' = Call("set_mode", <<requested>>, <<>>)
    /\ LET issued == PowerOn(smarthumidifier)
                        \o (IF SetModeValidation(requested) # None
                                THEN <<>> ELSE ModeCommands(requested)) IN
       /\ cmds' = issued
       /\ \E acks \in Acks(issued) :
             smarthumidifier' = Deliver(smarthumidifier, issued, acks)
    /\ IF SetModeValidation(requested) # None
         THEN /\ raised' = SetModeValidation(requested)
              /\ refreshes' = 0
              /\ UNCHANGED last_known_mode
         ELSE /\ last_known_mode' = requested
              /\ refreshes' = 1
              /\ raised' = None
    /\ UNCHANGED <<base_device, last_known_fan_speed, display_info>>

set_mode(requested) ==
    /\ HumidifierCreated
    /\ last_call' = Call("set_mode", <<requested>>, <<>>)
    /\ IF SetModeValidation(requested) # None
         THEN /\ raised' = SetModeValidation(requested)
              /\ cmds' = <<>>
              /\ refreshes' = 0
              /\ UNCHANGED <<smarthumidifier, last_known_mode>>
         ELSE LET issued == PowerOn(smarthumidifier) \o ModeCommands(requested) IN
              /\ cmds' = issued
              /\ \E acks \in Acks(issued) :
                    smarthumidifier' = Deliver(smarthumidifier, issued, acks)
              /\ last_known_mode' = requested
              /\ refreshes' = 1
              /\ raised' = None
    /\ UNCHANGED <<base_device, last_known_fan_speed, display_info>>

\* lines 146-150: the command set_humidity forwards the value as
HumidityCommands(lkm, humidity) ==
    IF lkm \in {FAN_MODE_AUTO, FAN_MODE_SLEEP}
        THEN <<Call("set_humidity", <<>>, <<humidity>>)>>
        ELSE <<Call("set_mist_level", <<>>, <<humidity>>)>>

set_humidity(humidity) ==
    /\ HumidifierCreated
    /\ last_call' = Call("set_humidity", <<>>, <<humidity>>)
    /\ LET issued == PowerOn(smarthumidifier)
                        \o HumidityCommands(last_known_mode, humidity) IN
       /\ cmds' = issued
       /\ \E acks \in Acks(issued) :
             smarthumidifier' = Deliver(smarthumidifier, issued, acks)
    /\ last_known_fan_speed' =
            IF last_known_mode \in {FAN_MODE_AUTO, FAN_MODE_SLEEP}
                THEN last_known_fan_speed ELSE humidity
    /\ refreshes' = 1
    /\ raised' = None
    /\ UNCHANGED <<base_device, last_known_mode, display_info>>

\* super().update(): the handle takes the attributes the device reports
DeviceRefresh(dev) == dev \in DeviceStates

\* line 178: the snapshot displayJSON() gives for the refreshed handle
displayJSON(dev, info) == info \in Snapshots /\ Coherent(dev, info)

\* lines 176-185: update() and get_latest_info()
update ==
    /\ HumidifierCreated
    /\ last_call' = Call("update", <<>>, <<>>)
    /\ \E dev \in DeviceStates, info \in Snapshots :
          /\ DeviceRefresh(dev)
          /\ displayJSON(dev, info)
          /\ smarthumidifier' = dev
          /\ display_info' = info
          /\ last_known_mode' =
                IF "Mode" \in DOMAIN info THEN info["Mode"] ELSE None
          /\ IF "Mist Virtual Level" \in DOMAIN info
               THEN /\ last_known_fan_speed' = info["Mist Virtual Level"]
                    /\ raised' = None
               ELSE /\ UNCHANGED last_known_fan_speed
                    /\ raised' = "KeyError"
    /\ cmds' = <<>>
    /\ refreshes' = 0
    /\ UNCHANGED base_device

\* the binary sensor's poll: the inherited update() refreshes the handle
sensor_update ==
    /\ SensorCreated
    /\ last_call' = Call("sensor_update", <<>>, <<>>)
    /\ \E dev \in DeviceStates :
          /\ DeviceRefresh(dev)
          /\ smarthumidifier' = dev
    /\ cmds' = <<>>
    /\ refreshes' = 0
    /\ raised' = None
    /\ UNCHANGED <<base_device, last_known_mode, last_known_fan_speed, display_info>>

\* the caller of set_humidity clamps the value to the entity's current range
set_humidity_clamped(humidity) ==
    /\ min_humidity <= humidity
    /\ humidity <= max_humidity
    /\ set_humidity(humidity)

Next ==
    \/ \E requested \in RequestedModes : set_mode(requested)
    \/ \E humidity \in HumidityInputs : set_humidity(humidity)
    \/ update
    \/ sensor_update

Spec == Init /\ [][Next]_vars

NextClamped ==
    \/ \E requested \in RequestedModes : set_mode(requested)
    \/ \E humidity \in HumidityInputs : set_humidity_clamped(humidity)
    \/ update
    \/ sensor_update

SpecClamped == Init /\ [][NextClamped]_vars

----------------------------------------------------------------------------
(* The claims *)

\* m is in the preset list PRESET_MODES declares for base device b
DeclaredPreset(b, m) ==
    b \in DOMAIN PRESET_MODES /\ m \in Range(PRESET_MODES[b])

IsCommand(cmd, name) == cmd.call = name

Sent(issued, name) == {i \in DOMAIN issued : IsCommand(issued[i], name)}

\* C1: for every base device a humidifier entity is created for, set_mode(m)
\* completes iff m is in the declared preset list of that base device, and
\* whenever it does not complete the exception is the validation error.
C1_SetModeSucceedsIffPreset ==
    (HumidifierCreated /\ last_call.call = "set_mode") =>
        /\ (raised = None <=> DeclaredPreset(base_device, last_call.str[1]))
        /\ (raised # None => raised = "ValueError")

\* C2: a set_mode call with an unsupported mode changes nothing: the cached
\* mode and fan speed and the device handle keep their values, no command is
\* sent and no state refresh is scheduled.
C2_RejectedSetModeChangesNothing ==
    [][(last_call'.call = "set_mode"
            /\ ~DeclaredPreset(base_device, last_call'.str[1]))
        => /\ last_known_mode' = last_known_mode
           /\ last_known_fan_speed' = last_known_fan_speed
           /\ smarthumidifier' = smarthumidifier
           /\ cmds' = <<>>
           /\ refreshes' = 0]_vars

\* a rejected set_mode on a powered-off device
C2_Witness ==
    /\ last_call = Call("set_mode", <<"bogus">>, <<>>)
    /\ raised = "ValueError"
    /\ ~smarthumidifier.is_on
    /\ last_known_mode = FAN_MODE_MANUAL

\* the one mode command the claim names for each mode
C3_ExpectedCommand(requested) ==
    CASE requested = "auto" -> Call("set_auto_mode", <<>>, <<>>)
      [] requested = "manual" -> Call("set_manual_mode", <<>>, <<>>)
      [] requested = "sleep" -> Call("set_humidity_mode", <<"sleep">>, <<>>)
      [] OTHER -> Call("none", <<>>, <<>>)

\* C3: a successful set_mode(requested) sends a power-on command iff the
\* device was off, then exactly the one mode command of requested; afterwards
\* last_known_mode is requested and exactly one state refresh is requested.
C3_SuccessfulSetModeCommands ==
    [][(last_call'.call = "set_mode" /\ raised' = None)
        => /\ cmds' = (IF smarthumidifier.is_on
                          THEN <<>> ELSE <<Call("turn_on", <<>>, <<>>)>>)
                      \o <<C3_ExpectedCommand(last_call'.str[1])>>
           /\ last_known_mode' = last_call'.str[1]
           /\ refreshes' = 1]_vars

\* set_mode("sleep") succeeded on a device that was off
C3_Witness ==
    /\ last_call = Call("set_mode", <<"sleep">>, <<>>)
    /\ raised = None
    /\ cmds = <<Call("turn_on", <<>>, <<>>), Call("set_humidity_mode", <<"sleep">>, <<>>)>>
    /\ last_known_mode = "sleep"
    /\ refreshes = 1

\* C4: right after a successful set_mode(m) the mode property reads m,
\* whatever the device handle's auto-enabled flag is.
C4_ModeReadsRequested ==
    (last_call.call = "set_mode" /\ raised = None) => mode = last_call.str[1]

\* C5: set_humidity(v) sends a mist-level command with v (and no humidity
\* command) and records v as last_known_fan_speed when the current mode is
\* manual; in every other state it sends a humidity command with v (and no
\* mist-level command) and leaves last_known_fan_speed alone.
C5_SetHumidityRoutesByMode ==
    [][last_call'.call = "set_humidity"
        => LET v == last_call'.int[1] IN
           IF last_known_mode = FAN_MODE_MANUAL
             THEN /\ Sent(cmds', "set_mist_level") # {}
                  /\ \A i \in Sent(cmds', "set_mist_level") : cmds'[i].int = <<v>>
                  /\ Sent(cmds', "set_humidity") = {}
                  /\ last_known_fan_speed' = v
             ELSE /\ Sent(cmds', "set_humidity") # {}
                  /\ \A i \in Sent(cmds', "set_humidity") : cmds'[i].int = <<v>>
                  /\ Sent(cmds', "set_mist_level") = {}
                  /\ last_known_fan_speed' = last_known_fan_speed]_vars

\* C6: when the mode property reads manual the range is [0,9], and when it
\* reads auto the range is [0,100].
C6_RangeFollowsMode ==
    HumidifierCreated =>
        /\ (mode = "manual" => (min_humidity = 0 /\ max_humidity = 9))
        /\ (mode = "auto" => (min_humidity = 0 /\ max_humidity = 100))

\* C7: a poll whose snapshot lacks a key completes without raising and keeps
\* the cached field of that key: last_known_fan_speed for "Mist Virtual
\* Level", last_known_mode for "Mode".
C7_StalePollKeepsCache ==
    [][last_call'.call = "update"
        => /\ raised' = None
           /\ ("Mist Virtual Level" \notin DOMAIN display_info'
                    => last_known_fan_speed' = last_known_fan_speed)
           /\ ("Mode" \notin DOMAIN display_info'
                    => last_known_mode' = last_known_mode)]_vars

\* C8: from creation onward the mode property is one of the presets declared
\* for the entity's base device.
C8_ModeIsDeclaredPreset ==
    (HumidifierCreated /\ base_device \in DOMAIN PRESET_MODES)
        => mode \in Range(PRESET_MODES[base_device])

\* C9: the water-tank sensor reads true before the first poll, and after a
\* poll its is_on is the tank-lifted flag the device reported.
C9_SensorShowsTankFlag ==
    SensorCreated =>
        /\ (last_call.call = "created" => is_on = TRUE)
        /\ (last_call.call = "sensor_update" => is_on = smarthumidifier.tank_lifted)

\* C10: with every set_humidity value clamped by the caller to the current
\* [min_humidity, max_humidity], every mist-level command carries a level in
\* [0,9] and last_known_fan_speed stays in [0,9].
C10_MistLevelInRange ==
    HumidifierCreated =>
        /\ last_known_fan_speed \in 0..9
        /\ \A i \in Sent(cmds, "set_mist_level") : cmds[i].int[1] \in 0..9

====
